---- MODULE Spec2Model ----
(***************************************************************************)
(* Model of the dialogue translation tool (src/app.py): the per-file       *)
(* pipeline of DialogueTranslator (tag stripping, prompt construction, the *)
(* one-shot provider call, the two renderers), create_download_zip, and    *)
(* the batch loop of main().                                               *)
(*                                                                         *)
(* Text is a sequence of Unicode code points (a Python str), bytes are a   *)
(* sequence of 0..255.  TLA+ strings are only used for tags (pc values,    *)
(* exception class names, JSON kinds).                                     *)
(*                                                                         *)
(* Four specifications share the variables:                                *)
(*   Spec          the batch loop of main() over the uploaded files        *)
(*   SpecText      the pure text functions applied to bounded inputs       *)
(*   SpecTranslate one call of translate_entire_file per provider outcome  *)
(*   SpecZip       create_download_zip applied to bounded result mappings  *)
(***************************************************************************)
EXTENDS Integers, Sequences, FiniteSets, TLC

VARIABLES
    uploaded_files,        \* main: the list returned by st.file_uploader
    pc,                    \* position of the script / of the function under test
    idx,                   \* main: enumerate(uploaded_files, 1) loop index
    content,               \* the decoded text of the file being processed
    api_calls,             \* log of requests.post calls: the file each was for
    payload,               \* the prompt of the latest request's payload
    results,               \* main: results dict, in insertion order
    success_count,         \* main: success_count
    total_dialogue_count,  \* main: total_dialogue_count
    st_error,              \* file indices reported with st.error (line 365)
    st_success,            \* file indices reported with st.success (line 362)
    rejected,              \* TRUE once the too-many-files st.error was shown
    metrics,               \* the summary st.metric values, <<>> until rendered
    zip_bytes,             \* the archive built by create_download_zip
    response,              \* the provider outcome handed to translate_entire_file
    translation,           \* what translate_entire_file did: returned or raised
    cleaned,               \* clean_tags_from_content(content)
    recleaned,             \* clean_tags_from_content(cleaned)
    markdown,              \* generate_markdown output
    txt,                   \* generate_txt output
    dialogue_count         \* count_dialogues output

vars == <<uploaded_files, pc, idx, content, api_calls, payload, results, success_count,
          total_dialogue_count, st_error, st_success, rejected, metrics, zip_bytes,
          response, translation, cleaned, recleaned, markdown, txt, dialogue_count>>

-----------------------------------------------------------------------------
(* Program constants and bounds *)

MAX_FILES == 5

\* Longest generated input text of SpecText.
MaxLen == 5
\* Most entries of a generated result mapping of SpecZip.
MaxEntries == 2

\* Code points the program's string operations single out.
NL == 10
SPACE == 32
COLON == 58
LBRACKET == 91
RBRACKET == 93
STAR == 42
DOT == 46

-----------------------------------------------------------------------------
(* Sequence helpers *)

Range(s) == {s[i] : i \in 1..Len(s)}

Min(S) == CHOOSE m \in S : \A n \in S : m <= n

Max(S) == CHOOSE m \in S : \A n \in S : n <= m

\* s[from..] (Python s[from-1:])
From(s, from) == SubSeq(s, from, Len(s))

\* TRUE iff needle occurs in hay as a contiguous substring (Python `in`).
Contains(hay, needle) ==
    \E k \in 0..(Len(hay) - Len(needle)) :
        SubSeq(hay, k + 1, k + Len(needle)) = needle

\* The single element of a one-element set; { f(v) : v \in {e} } computes e once.
TheOne(S) == CHOOSE x \in S : TRUE

StartsWith(s, p) == Len(p) <= Len(s) /\ SubSeq(s, 1, Len(p)) = p

\* All sequences over S of length 0..n.
RECURSIVE SeqsUpTo(_, _)
SeqsUpTo(S, n) ==
    IF n = 0 THEN {<<>>}
    ELSE LET shorter == SeqsUpTo(S, n - 1)
         IN  shorter \cup {Append(s, c) : s \in {t \in shorter : Len(t) = n - 1}, c \in S}

-----------------------------------------------------------------------------
(* Python str primitives *)

\* str.isspace() per code point (also the class \s of a str pattern).
IsSpace(c) ==
    c \in (9..13) \cup (28..32) \cup {133, 160, 5760} \cup (8192..8202)
          \cup {8232, 8233, 8239, 8287, 12288}

RECURSIVE LStrip(_)
LStrip(s) == IF s # <<>> /\ IsSpace(Head(s)) THEN LStrip(Tail(s)) ELSE s

RECURSIVE RStrip(_)
RStrip(s) ==
    IF s # <<>> /\ IsSpace(s[Len(s)]) THEN RStrip(SubSeq(s, 1, Len(s) - 1)) ELSE s

\* str.strip()
Strip(s) == RStrip(LStrip(s))

\* 1-based index of the first occurrence of c in s, 0 when absent.
IndexOf(s, c) ==
    LET at == {i \in 1..Len(s) : s[i] = c}
    IN  IF at = {} THEN 0 ELSE Min(at)

\* 1-based index of the last occurrence of c in s, 0 when absent (str.rfind + 1).
LastIndexOf(s, c) ==
    LET at == {i \in 1..Len(s) : s[i] = c}
    IN  IF at = {} THEN 0 ELSE Max(at)

\* str.split('\n'): always at least one line.
RECURSIVE Split(_)
Split(s) ==
    TheOne({IF k = 0 THEN <<s>> ELSE <<SubSeq(s, 1, k - 1)>> \o Split(From(s, k + 1)) :
            k \in {IndexOf(s, NL)}})

\* '\n'.join(lines)
RECURSIVE Join(_)
Join(lines) ==
    IF lines = <<>> THEN <<>>
    ELSE IF Len(lines) = 1 THEN lines[1]
    ELSE lines[1] \o <<NL>> \o Join(Tail(lines))

\* str.encode('utf-8') of one code point.
Utf8Char(c) ==
    IF c < 128 THEN <<c>>
    ELSE IF c < 2048 THEN <<192 + (c \div 64), 128 + (c % 64)>>
    ELSE IF c < 65536
         THEN <<224 + (c \div 4096), 128 + ((c \div 64) % 64), 128 + (c % 64)>>
    ELSE <<240 + (c \div 262144), 128 + ((c \div 4096) % 64),
           128 + ((c \div 64) % 64), 128 + (c % 64)>>

\* str.encode('utf-8')
RECURSIVE Utf8Encode(_)
Utf8Encode(s) ==
    IF s = <<>> THEN <<>> ELSE Utf8Char(Head(s)) \o Utf8Encode(Tail(s))

IsCont(b) == b \in 128..191

\* bytes.decode('utf-8') (strict): [ok |-> TRUE, text |-> str] or, where Python
\* raises UnicodeDecodeError, [ok |-> FALSE, text |-> <<>>].
RECURSIVE Utf8Decode(_)
Utf8Decode(b) ==
    IF b = <<>> THEN [ok |-> TRUE, text |-> <<>>]
    ELSE
      LET b1 == b[1]
          n  == IF b1 < 128 THEN 1
                ELSE IF b1 \in 194..223 THEN 2
                ELSE IF b1 \in 224..239 THEN 3
                ELSE IF b1 \in 240..244 THEN 4
                ELSE 0
          wellformed ==
              /\ n > 0
              /\ Len(b) >= n
              /\ \A i \in 2..n : IsCont(b[i])
          cp == IF n = 1 THEN b1
                ELSE IF n = 2 THEN (b1 - 192) * 64 + (b[2] - 128)
                ELSE IF n = 3
                     THEN (b1 - 224) * 4096 + (b[2] - 128) * 64 + (b[3] - 128)
                ELSE (b1 - 240) * 262144 + (b[2] - 128) * 4096
                     + (b[3] - 128) * 64 + (b[4] - 128)
          valid ==
              /\ wellformed
              /\ (n = 3 => cp >= 2048 /\ cp \notin 55296..57343)
              /\ (n = 4 => cp >= 65536 /\ cp <= 1114111)
      IN  IF ~valid THEN [ok |-> FALSE, text |-> <<>>]
          ELSE TheOne({IF rest.ok THEN [ok |-> TRUE, text |-> <<cp>> \o rest.text]
                       ELSE rest : rest \in {Utf8Decode(From(b, n + 1))}})

-----------------------------------------------------------------------------
(* DialogueTranslator.clean_tags_from_content: re.sub(r'\[.*?\]', '', content) *)

\* With s[1] = '[': the index where the non-greedy match starting at s[1] ends,
\* 0 when there is none.  `.` does not match '\n' (no DOTALL), so the match is
\* the first ']' after the '[' provided no '\n' lies between them.
TagEnd(s) ==
    LET close == {j \in 2..Len(s) : s[j] = RBRACKET}
    IN  IF close = {} THEN 0
        ELSE LET j == Min(close)
             IN  IF \E k \in 2..(j - 1) : s[k] = NL THEN 0 ELSE j

\* re.sub scanning left to right, replacing each non-overlapping match by ''.
RECURSIVE SubTags(_)
SubTags(s) ==
    IF s = <<>> THEN <<>>
    ELSE IF Head(s) = LBRACKET
         THEN TheOne({IF e > 0 THEN SubTags(From(s, e + 1))
                      ELSE <<Head(s)>> \o SubTags(Tail(s)) : e \in {TagEnd(s)}})
    ELSE <<Head(s)>> \o SubTags(Tail(s))

\* Mutant: only the first tag is removed (re.sub(..., count=1)).
clean_tags_first_only(text) ==
    LET open == {i \in 1..Len(text) : text[i] = LBRACKET /\ TagEnd(From(text, i)) > 0}
    IN  IF open = {} THEN text
        ELSE LET i == Min(open)
             IN  SubSeq(text, 1, i - 1) \o From(text, i + TagEnd(From(text, i)))

clean_tags_from_content(text) == SubTags(text)

-----------------------------------------------------------------------------
(* DialogueTranslator.count_dialogues *)

\* re.match(r'^[^:]+:\s*.+$', line) on a stripped line without '\n': a
\* non-empty run of non-colons, the first colon, and at least one more character.
DialogueLineMatches(line) ==
    LET k == IndexOf(line, COLON)
    IN  k > 1 /\ k < Len(line)

count_dialogues(text) ==
    LET lines == Split(text)
    IN  Cardinality({i \in 1..Len(lines) :
            LET line == Strip(lines[i])
            IN  line # <<>> /\ COLON \in Range(line) /\ DialogueLineMatches(line)})

-----------------------------------------------------------------------------
(* DialogueTranslator.generate_markdown / generate_txt *)

\* re.match(r'^([^:]+):\s*(.*)$', line) on a stripped line without '\n':
\* group 1 is the non-empty text before the first colon, group 2 what follows
\* the colon and the whitespace after it.
SpeakerMatch(line) ==
    LET k == IndexOf(line, COLON)
    IN  IF k > 1
        THEN [ok |-> TRUE, speaker |-> SubSeq(line, 1, k - 1),
              text |-> LStrip(From(line, k + 1))]
        ELSE [ok |-> FALSE, speaker |-> <<>>, text |-> <<>>]

\* Lines 155-169, on the stripped line: blank, speaker line, or anything else.
markdown_stripped_line(line) ==
    IF line = <<>> THEN <<>>
    ELSE IF COLON \in Range(line)
         THEN TheOne({IF m.ok
                      THEN <<STAR, STAR>> \o Strip(m.speaker)
                           \o <<COLON, STAR, STAR, SPACE>> \o Strip(m.text)
                      ELSE line : m \in {SpeakerMatch(line)}})
    ELSE line

\* Mutant: the speaker is emphasised without the colon inside the markup.
markdown_line_colon_outside(raw) ==
    TheOne({IF line # <<>> /\ SpeakerMatch(line).ok
            THEN <<STAR, STAR>> \o Strip(SpeakerMatch(line).speaker)
                 \o <<STAR, STAR, COLON, SPACE>> \o Strip(SpeakerMatch(line).text)
            ELSE line : line \in {Strip(raw)}})

\* The body of the for loop (lines 153-169): one input line to one output line.
markdown_line(raw) ==
    TheOne({markdown_stripped_line(line) : line \in {Strip(raw)}})

generate_markdown(text) ==
    TheOne({Join([i \in 1..Len(lines) |-> markdown_line(lines[i])]) :
            lines \in {Split(text)}})

generate_txt(text) == text

-----------------------------------------------------------------------------
(* DialogueTranslator.translate_entire_file *)

\* The f-string around {cleaned_content} (lines 55-74).
PROMPT_HEAD ==
    <<35831, 23558, 20197, 19979, 33521, 25991, 23545, 35805, 25991, 20214, 32763, 35793,
      25104, 22320, 36947, 30340, 20013, 25991, 65292, 35201, 31526, 21512, 20013, 25991,
      34920, 36798, 20064, 24815, 65292, 20934, 30830, 20256, 36798, 21407, 24847, 12290, 10,
      10, 35201, 27714, 65306, 10, 49, 46, 32, 20445, 25345, 21407, 25991, 20214, 30340,
      26684, 24335, 21644, 32467, 26500, 10, 50, 46, 32, 27599, 34892, 23545, 35805, 26684,
      24335, 20026, 34, 35828, 35805, 32773, 58, 32, 20869, 23481, 34, 10, 51, 46, 32, 20808,
      26174, 31034, 33521, 25991, 21407, 25991, 65292, 28982, 21518, 26174, 31034, 20013,
      25991, 32763, 35793, 65292, 27599, 32452, 23545, 35805, 20043, 38388, 31354, 19968,
      34892, 10, 52, 46, 32, 33258, 21160, 28165, 29702, 24050, 32463, 23384, 22312, 30340,
      91, 116, 97, 103, 93, 26631, 31614, 10, 53, 46, 32, 32763, 35793, 35201, 20934, 30830,
      12289, 22320, 36947, 12289, 31526, 21512, 20013, 25991, 34920, 36798, 20064, 24815, 10,
      54, 46, 32, 36755, 20986, 26684, 24335, 31034, 20363, 65306, 10, 10, 83, 97, 108, 108,
      121, 58, 32, 72, 101, 108, 108, 111, 32, 116, 104, 101, 114, 101, 33, 10, 83, 97, 108,
      108, 121, 58, 32, 20320, 22909, 65281, 10, 10, 80, 101, 116, 101, 58, 32, 72, 111, 119,
      32, 97, 114, 101, 32, 121, 111, 117, 63, 10, 80, 101, 116, 101, 58, 32, 20320, 22909,
      21527, 65311, 10, 10, 21407, 25991, 20214, 20869, 23481, 65306, 10>>

PROMPT_TAIL == <<10, 10, 32763, 35793, 32467, 26524, 65306>>

build_prompt(cleaned_content) == PROMPT_HEAD \o cleaned_content \o PROMPT_TAIL

\* Mutant: the raw content is embedded, the tags are not cleaned first.
request_prompt_raw(text) == build_prompt(text)

\* Lines 51-87: the prompt of the payload posted for a file's content.
request_prompt(text) == build_prompt(clean_tags_from_content(text))

\* "[API请求失败: " and "[解析响应失败: "
API_FAILED == <<91, 65, 80, 73, 35831, 27714, 22833, 36133, 58, 32>>

PARSE_FAILED == <<91, 35299, 26512, 21709, 24212, 22833, 36133, 58, 32>>

\* str(e) of the exceptions requests and the subscripts raise.
DIAG_TIMEOUT ==
    <<72, 84, 84, 80, 83, 67, 111, 110, 110, 101, 99, 116, 105, 111, 110, 80, 111, 111, 108,
      40, 104, 111, 115, 116, 61, 39, 111, 112, 101, 110, 114, 111, 117, 116, 101, 114, 46,
      97, 105, 39, 44, 32, 112, 111, 114, 116, 61, 52, 52, 51, 41, 58, 32, 82, 101, 97, 100,
      32, 116, 105, 109, 101, 100, 32, 111, 117, 116, 46, 32, 40, 114, 101, 97, 100, 32, 116,
      105, 109, 101, 111, 117, 116, 61, 49, 50, 48, 41>>

DIAG_CONNECTION ==
    <<72, 84, 84, 80, 83, 67, 111, 110, 110, 101, 99, 116, 105, 111, 110, 80, 111, 111, 108,
      40, 104, 111, 115, 116, 61, 39, 111, 112, 101, 110, 114, 111, 117, 116, 101, 114, 46,
      97, 105, 39, 44, 32, 112, 111, 114, 116, 61, 52, 52, 51, 41, 58, 32, 77, 97, 120, 32,
      114, 101, 116, 114, 105, 101, 115, 32, 101, 120, 99, 101, 101, 100, 101, 100>>

DIAG_HTTP ==
    <<52, 48, 49, 32, 67, 108, 105, 101, 110, 116, 32, 69, 114, 114, 111, 114, 58, 32, 85,
      110, 97, 117, 116, 104, 111, 114, 105, 122, 101, 100, 32, 102, 111, 114, 32, 117, 114,
      108, 58, 32, 104, 116, 116, 112, 115, 58, 47, 47, 111, 112, 101, 110, 114, 111, 117,
      116, 101, 114, 46, 97, 105, 47, 97, 112, 105, 47, 118, 49, 47, 99, 104, 97, 116, 47, 99,
      111, 109, 112, 108, 101, 116, 105, 111, 110, 115>>

DIAG_JSON ==
    <<69, 120, 112, 101, 99, 116, 105, 110, 103, 32, 118, 97, 108, 117, 101, 58, 32, 108, 105,
      110, 101, 32, 49, 32, 99, 111, 108, 117, 109, 110, 32, 49, 32, 40, 99, 104, 97, 114, 32,
      48, 41>>

\* "'choices'", "'message'", "'content'", "0"
DIAG_KEY_CHOICES == <<39, 99, 104, 111, 105, 99, 101, 115, 39>>

DIAG_KEY_MESSAGE == <<39, 109, 101, 115, 115, 97, 103, 101, 39>>

DIAG_KEY_CONTENT == <<39, 99, 111, 110, 116, 101, 110, 116, 39>>

DIAG_KEY_ZERO == <<48>>

\* "list index out of range", "string index out of range"
DIAG_LIST_INDEX ==
    <<108, 105, 115, 116, 32, 105, 110, 100, 101, 120, 32, 111, 117, 116, 32, 111, 102,
      32, 114, 97, 110, 103, 101>>

DIAG_STR_INDEX ==
    <<115, 116, 114, 105, 110, 103, 32, 105, 110, 100, 101, 120, 32, 111, 117, 116, 32,
      111, 102, 32, 114, 97, 110, 103, 101>>

(* Provider outcomes.  `transport` is what requests.post / raise_for_status do; *)
(* for a 2xx response the body is described level by level along the path       *)
(* result['choices'][0]['message']['content'] by the JSON kind found there      *)
(* ("n/a" below the level where the path ends).                                 *)
NA == "n/a"

Resp(tr, b, ch, f, m, c, t) ==
    [transport |-> tr, body |-> b, choices |-> ch, first |-> f, message |-> m,
     content |-> c, text |-> t]

\* " Sally: Hello!\nSally: 你好！\n" and "" : the texts of well-formed responses.
TEXT_TRANSLATED ==
    <<32, 83, 97, 108, 108, 121, 58, 32, 72, 101, 108, 108, 111, 33, 10, 83, 97, 108,
      108, 121, 58, 32, 20320, 22909, 65281, 10>>

ResponseTexts == {TEXT_TRANSLATED, <<>>}

RESP_OK == Resp("ok", "dict", "list", "dict", "dict", "str", TEXT_TRANSLATED)

RESP_TIMEOUT == Resp("Timeout", NA, NA, NA, NA, NA, <<>>)

RESP_NULL_CHOICES == Resp("ok", "dict", "null", NA, NA, NA, <<>>)

Responses ==
    {Resp(tr, NA, NA, NA, NA, NA, <<>>) : tr \in {"ConnectionError", "Timeout", "HTTPError"}}
    \cup {Resp("ok", b, NA, NA, NA, NA, <<>>) :
            b \in {"not_json", "not_json_old", "null", "int", "str", "list"}}
    \cup {Resp("ok", "dict", ch, NA, NA, NA, <<>>) :
            ch \in {"missing", "null", "int", "str_empty", "str", "list_empty", "dict"}}
    \cup {Resp("ok", "dict", "list", f, NA, NA, <<>>) :
            f \in {"null", "int", "str", "list"}}
    \cup {Resp("ok", "dict", "list", "dict", m, NA, <<>>) :
            m \in {"missing", "null", "int", "str", "list"}}
    \cup {Resp("ok", "dict", "list", "dict", "dict", c, <<>>) :
            c \in {"missing", "null", "int", "list", "dict"}}
    \cup {Resp("ok", "dict", "list", "dict", "dict", "str", t) : t \in ResponseTexts}

\* The provider outcomes the batch loop is run against.
BatchResponses == {RESP_OK, RESP_TIMEOUT, RESP_NULL_CHOICES}

Raised(exc, diag) == [exc |-> exc, diag |-> diag, kind |-> NA]

Value(kind) == [exc |-> "none", diag |-> <<>>, kind |-> kind]

\* value[key] for a str key, value of JSON kind `kind`; `member` is the kind
\* stored under the key ("missing" when the dict has no such key).
GetKey(kind, member, keydiag) ==
    IF kind = "dict"
    THEN IF member = "missing" THEN Raised("KeyError", keydiag) ELSE Value(member)
    ELSE Raised("TypeError", <<>>)

\* value[0]
GetFirst(kind, first) ==
    CASE kind = "list" -> Value(first)
      [] kind = "list_empty" -> Raised("IndexError", DIAG_LIST_INDEX)
      [] kind = "str" -> Value("str")
      [] kind = "str_empty" -> Raised("IndexError", DIAG_STR_INDEX)
      [] kind = "dict" -> Raised("KeyError", DIAG_KEY_ZERO)
      [] OTHER -> Raised("TypeError", <<>>)

\* Lines 90-99: what the try block does for a provider outcome: the exception
\* it raises (exc, with str(e) in diag) or exc = "none" and the stripped text.
try_block(resp) ==
    IF resp.transport # "ok"
    THEN [exc |-> "RequestException",
          diag |-> CASE resp.transport = "Timeout" -> DIAG_TIMEOUT
                     [] resp.transport = "ConnectionError" -> DIAG_CONNECTION
                     [] OTHER -> DIAG_HTTP,
          text |-> <<>>]
    ELSE IF resp.body = "not_json"
    \* requests >= 2.27: response.json() raises requests.exceptions.JSONDecodeError
    THEN [exc |-> "RequestException", diag |-> DIAG_JSON, text |-> <<>>]
    ELSE IF resp.body = "not_json_old"
    \* requests < 2.27: response.json() raises a plain ValueError
    THEN [exc |-> "ValueError", diag |-> DIAG_JSON, text |-> <<>>]
    ELSE
      LET r1 == GetKey(resp.body, resp.choices, DIAG_KEY_CHOICES)
          r2 == IF r1.exc # "none" THEN r1 ELSE GetFirst(r1.kind, resp.first)
          r3 == IF r2.exc # "none" THEN r2
                ELSE GetKey(r2.kind, resp.message, DIAG_KEY_MESSAGE)
          r4 == IF r3.exc # "none" THEN r3
                ELSE GetKey(r3.kind, resp.content, DIAG_KEY_CONTENT)
      IN  IF r4.exc # "none" THEN [exc |-> r4.exc, diag |-> r4.diag, text |-> <<>>]
          ELSE IF r4.kind # "str"
          THEN [exc |-> "AttributeError", diag |-> <<>>, text |-> <<>>]
          ELSE [exc |-> "none", diag |-> <<>>, text |-> Strip(resp.text)]

\* The exception classes the two except clauses (lines 103-106) catch.
CaughtAsRequest == {"RequestException"}

CaughtAsParse == {"KeyError", "IndexError"}

\* What lines 89-106 make of the try block's result: a caught exception
\* becomes the returned text, any other exception propagates.
except_clauses(t) ==
    [outcome |-> IF t.exc \in {"none"} \cup CaughtAsRequest \cup CaughtAsParse
                 THEN "return" ELSE "raise",
     exc |-> IF t.exc \in CaughtAsRequest \cup CaughtAsParse THEN "none" ELSE t.exc,
     text |-> IF t.exc = "none" THEN t.text
              ELSE IF t.exc \in CaughtAsRequest
                   THEN API_FAILED \o t.diag \o <<RBRACKET>>
              ELSE IF t.exc \in CaughtAsParse
                   THEN PARSE_FAILED \o t.diag \o <<RBRACKET>>
              ELSE <<>>]

\* Mutant: no except clause for RequestException, a transport failure propagates.
translate_reraising(text, resp) ==
    TheOne({[outcome |-> IF t.exc = "none" \/ t.exc \in CaughtAsParse
                         THEN "return" ELSE "raise",
             exc |-> IF t.exc \in CaughtAsParse THEN "none" ELSE t.exc,
             text |-> IF t.exc = "none" THEN t.text
                      ELSE IF t.exc \in CaughtAsParse
                           THEN PARSE_FAILED \o t.diag \o <<RBRACKET>>
                      ELSE <<>>] : t \in {try_block(resp)}})

\* translate_entire_file(content, filename) against a provider outcome, once
\* the payload of request_prompt(content) is posted: it returns (text) or
\* raises (exc).
translate_entire_file(text, resp) ==
    TheOne({except_clauses(t) : t \in {try_block(resp)}})

NoTranslation == [outcome |-> "none", exc |-> "none", text |-> <<>>]

NoResponse == Resp(NA, NA, NA, NA, NA, NA, <<>>)

\* process_content(content, filename): count, translate, render.  Returns the
\* tuple (md_content, txt_content, dialogue_count) or raises what
\* translate_entire_file raises.
process_content(text, resp) ==
    LET count == count_dialogues(text)
    IN  TheOne({
        [outcome |-> t.outcome, exc |-> t.exc, translated |-> t.text,
         markdown |-> IF t.outcome = "return" THEN generate_markdown(t.text) ELSE <<>>,
         txt |-> IF t.outcome = "return" THEN generate_txt(t.text) ELSE <<>>,
         dialogue_count |-> count] : t \in {translate_entire_file(text, resp)}})

-----------------------------------------------------------------------------
(* create_download_zip *)

\* Path(filename).stem for a bare file name: the name up to its last dot,
\* unless that dot is the first or the last character.
Stem(filename) ==
    LET i == LastIndexOf(filename, DOT)
    IN  IF 1 < i /\ i < Len(filename) THEN SubSeq(filename, 1, i - 1) ELSE filename

\* "_translated.md", "_translated.txt"
SUFFIX_MD == <<95, 116, 114, 97, 110, 115, 108, 97, 116, 101, 100, 46, 109, 100>>

SUFFIX_TXT == <<95, 116, 114, 97, 110, 115, 108, 97, 116, 101, 100, 46, 116, 120, 116>>

\* The two writestr calls of one loop iteration.
zip_members(entry) ==
    << [name |-> Stem(entry.filename) \o SUFFIX_MD, data |-> Utf8Encode(entry.markdown)],
       [name |-> Stem(entry.filename) \o SUFFIX_TXT, data |-> Utf8Encode(entry.txt)] >>

\* The archive as the list of members written, in order.  (DEFLATE and its
\* inverse are zlib's; a member is kept as the bytes that decompress from it.)
RECURSIVE create_download_zip(_)
create_download_zip(res) ==
    IF res = <<>> THEN <<>>
    ELSE zip_members(Head(res)) \o create_download_zip(Tail(res))

\* ZipFile.namelist()
NameList(archive) == [i \in 1..Len(archive) |-> archive[i].name]

\* ZipFile.read(name): the member NameToInfo[name] holds, i.e. the last one
\* written under that name.  Only applied to a name of the archive.
ZipRead(archive, name) ==
    archive[Max({i \in 1..Len(archive) : archive[i].name = name})].data

-----------------------------------------------------------------------------
(* The results dict of main() : a sequence of entries in insertion order *)

HasKey(res, name) == \E i \in 1..Len(res) : res[i].filename = name

\* results[name] = value: a new key is appended, an existing key keeps its
\* position and takes the new value.
dict_set(res, entry) ==
    IF HasKey(res, entry.filename)
    THEN [i \in 1..Len(res) |->
            IF res[i].filename = entry.filename THEN entry ELSE res[i]]
    ELSE Append(res, entry)

-----------------------------------------------------------------------------
(* Inputs *)

\* "Sally: [warm] Hello!\nPete: [joyful] Hi!"
SCENARIO ==
    <<83, 97, 108, 108, 121, 58, 32, 91, 119, 97, 114, 109, 93, 32, 72, 101, 108, 108,
      111, 33, 10, 80, 101, 116, 101, 58, 32, 91, 106, 111, 121, 102, 117, 108, 93, 32,
      72, 105, 33>>

\* "Sally: Hello!"
SALLY_HELLO == <<83, 97, 108, 108, 121, 58, 32, 72, 101, 108, 108, 111, 33>>

\* "a.txt", "a.md", "b.txt", "b.md"
NAME_A_TXT == <<97, 46, 116, 120, 116>>

NAME_A_MD == <<97, 46, 109, 100>>

NAME_B_TXT == <<98, 46, 116, 120, 116>>

NAME_B_MD == <<98, 46, 109, 100>>

\* File bytes: the scenario text (ASCII, so its UTF-8 bytes are its code
\* points) and "S\xe9:", Latin-1 bytes that are not UTF-8.
RAW_SCENARIO == SCENARIO

RAW_LATIN1 == <<83, 233, 58>>

UploadedFile(name, raw) == [name |-> name, raw |-> raw]

\* Uploads of the batch: two names (so that a name can repeat), of which one
\* also comes with bytes that do not decode (the other case is its mirror image).
Uploads ==
    {UploadedFile(NAME_A_TXT, RAW_SCENARIO), UploadedFile(NAME_B_TXT, RAW_SCENARIO),
     UploadedFile(NAME_B_TXT, RAW_LATIN1)}

\* Inputs of the text functions: every text of up to MaxLen characters over
\* the characters tag stripping singles out, and over those rendering does.
TextInputs ==
    SeqsUpTo({97, LBRACKET, RBRACKET, NL}, MaxLen)
    \cup SeqsUpTo({97, COLON, SPACE, NL}, MaxLen)
    \cup {SCENARIO, SALLY_HELLO}

\* Inputs of translate_entire_file.
TranslateInputs == {SCENARIO, SALLY_HELLO, <<>>}

Entry(name, md, tx, n) ==
    [filename |-> name, markdown |-> md, txt |-> tx, dialogue_count |-> n]

\* Result mappings handed to create_download_zip: distinct keys, any order.
ZipOutputs == {TEXT_TRANSLATED, SALLY_HELLO}

ZipMappings ==
    {m \in SeqsUpTo({Entry(n, generate_markdown(t), generate_txt(t), 0) :
                        n \in {NAME_A_TXT, NAME_A_MD, NAME_B_TXT, NAME_B_MD},
                        t \in ZipOutputs}, MaxEntries) :
        \A i, j \in 1..Len(m) : i # j => m[i].filename # m[j].filename}

-----------------------------------------------------------------------------
(* main(): the batch *)

batchVars == <<uploaded_files, idx, api_calls, payload, success_count, total_dialogue_count,
               st_error, st_success, rejected, metrics>>

textVars == <<cleaned, recleaned, markdown, txt, dialogue_count>>

Idle ==
    /\ idx = 0
    /\ content = <<>>
    /\ api_calls = <<>>
    /\ payload = <<>>
    /\ results = <<>>
    /\ success_count = 0
    /\ total_dialogue_count = 0
    /\ st_error = {}
    /\ st_success = {}
    /\ rejected = FALSE
    /\ metrics = {}
    /\ zip_bytes = <<>>
    /\ response = NoResponse
    /\ translation = NoTranslation
    /\ cleaned = <<>>
    /\ recleaned = <<>>
    /\ markdown = <<>>
    /\ txt = <<>>
    /\ dialogue_count = 0

\* The page after an upload (an API key is present, line 270): any number of
\* files up to one more than the maximum.
Init ==
    /\ uploaded_files \in SeqsUpTo(Uploads, MAX_FILES + 1)
    /\ pc = "uploaded"
    /\ Idle

\* Mutant: the count check is off by one.
too_many_off_by_one(n) == n > MAX_FILES + 1

\* Line 287
too_many(n) == n > MAX_FILES

\* Lines 469-471: nothing uploaded, the usage notes are shown.
ShowUsage ==
    /\ pc = "uploaded"
    /\ uploaded_files = <<>>
    /\ pc' = "usage"
    /\ UNCHANGED <<batchVars, content, results, zip_bytes, response, translation, textVars>>

\* Lines 287-289: too many files, st.error and return.
RejectUpload ==
    /\ pc = "uploaded"
    /\ uploaded_files # <<>>
    /\ too_many(Len(uploaded_files))
    /\ rejected' = TRUE
    /\ pc' = "returned"
    /\ UNCHANGED <<uploaded_files, idx, api_calls, payload, success_count, total_dialogue_count,
                   st_error, st_success, metrics, content, results, zip_bytes,
                   response, translation, textVars>>

\* Lines 311-325: the button is pressed; the accumulators are created.
StartTranslation ==
    /\ pc = "uploaded"
    /\ uploaded_files # <<>>
    /\ ~too_many(Len(uploaded_files))
    /\ results' = <<>>
    /\ success_count' = 0
    /\ total_dialogue_count' = 0
    /\ idx' = 1
    /\ pc' = "file"
    /\ UNCHANGED <<uploaded_files, api_calls, payload, st_error, st_success, rejected, metrics,
                   content, zip_bytes, response, translation, textVars>>

\* Where the loop stands after file i of n.
after_file(i, n) == [pc |-> IF i < n THEN "file" ELSE "summary", idx |-> i + 1]

\* Mutant: an exception ends the loop (no per-file try/except).
on_exception_abort(i, n) == [pc |-> "summary", idx |-> i + 1]

\* Lines 364-365: the except clause reports the file and the loop goes on.
on_exception(i, n) == after_file(i, n)

\* Mutant: a second request is posted for the same file (a retry).
post_with_retry(i) == <<i, i>>

\* Lines 90-95: the one requests.post of a call of translate_entire_file.
post_request(i) == <<i>>

\* Lines 332-350 up to the blocking requests.post: decode the file; a decode
\* error is caught by the except clause of line 364, otherwise the request
\* for this file is sent.
BeginFile ==
    /\ pc = "file"
    /\ \E d \in {Utf8Decode(uploaded_files[idx].raw)} :
           IF d.ok
           THEN /\ content' = d.text
                /\ payload' = request_prompt(d.text)
                /\ api_calls' = api_calls \o post_request(idx)
                /\ pc' = "awaiting"
                /\ UNCHANGED <<idx, st_error>>
           ELSE /\ st_error' = st_error \cup {idx}
                /\ pc' = on_exception(idx, Len(uploaded_files)).pc
                /\ idx' = on_exception(idx, Len(uploaded_files)).idx
                /\ UNCHANGED <<content, api_calls, payload>>
    /\ UNCHANGED <<uploaded_files, results, success_count, total_dialogue_count,
                   st_success, rejected, metrics, zip_bytes, response, translation,
                   textVars>>

\* Lines 346-365 from the provider's answer on: process_content returns and
\* the entry is stored, or it raises and the except clause reports the file.
Respond(resp) ==
    /\ pc = "awaiting"
    /\ \E p \in {process_content(content, resp)} :
       LET n == Len(uploaded_files)
       IN  /\ response' = resp
           /\ translation' = [outcome |-> p.outcome, exc |-> p.exc,
                              text |-> p.translated]
           /\ IF p.outcome = "return"
              THEN /\ results' = dict_set(results,
                          Entry(uploaded_files[idx].name, p.markdown, p.txt,
                                p.dialogue_count))
                   /\ success_count' = success_count + 1
                   /\ total_dialogue_count' = total_dialogue_count + p.dialogue_count
                   /\ st_success' = st_success \cup {idx}
                   /\ pc' = after_file(idx, n).pc
                   /\ idx' = after_file(idx, n).idx
                   /\ UNCHANGED st_error
              ELSE /\ st_error' = st_error \cup {idx}
                   /\ pc' = on_exception(idx, n).pc
                   /\ idx' = on_exception(idx, n).idx
                   /\ UNCHANGED <<results, success_count, total_dialogue_count, st_success>>
    /\ UNCHANGED <<uploaded_files, content, api_calls, payload, rejected, metrics, zip_bytes,
                   textVars>>

\* Lines 367-405: the summary metrics, and the archive when there are results.
Summary ==
    /\ pc = "summary"
    /\ metrics' = {[label |-> "uploaded", value |-> Len(uploaded_files)],
                   [label |-> "success", value |-> success_count],
                   [label |-> "api_requests", value |-> success_count]}
    /\ zip_bytes' = IF results # <<>> THEN create_download_zip(results) ELSE <<>>
    /\ pc' = "done"
    /\ UNCHANGED <<uploaded_files, idx, api_calls, payload, success_count, total_dialogue_count,
                   st_error, st_success, rejected, content, results, response,
                   translation, textVars>>

Next ==
    \/ ShowUsage
    \/ RejectUpload
    \/ StartTranslation
    \/ BeginFile
    \/ \E resp \in BatchResponses : Respond(resp)
    \/ Summary

Spec == Init /\ [][Next]_vars

-----------------------------------------------------------------------------
(* The text functions on their own *)

InitText ==
    /\ uploaded_files = <<>>
    /\ pc = "text"
    /\ idx = 0
    /\ content \in TextInputs
    /\ api_calls = <<>>
    /\ payload = <<>>
    /\ results = <<>>
    /\ success_count = 0
    /\ total_dialogue_count = 0
    /\ st_error = {}
    /\ st_success = {}
    /\ rejected = FALSE
    /\ metrics = {}
    /\ zip_bytes = <<>>
    /\ response = NoResponse
    /\ translation = NoTranslation
    /\ cleaned = <<>>
    /\ recleaned = <<>>
    /\ markdown = <<>>
    /\ txt = <<>>
    /\ dialogue_count = 0

TextStrip ==
    /\ pc = "text"
    /\ cleaned' = clean_tags_from_content(content)
    /\ pc' = "stripped"
    /\ UNCHANGED <<batchVars, content, results, zip_bytes, response, translation,
                   recleaned, markdown, txt, dialogue_count>>

TextRestrip ==
    /\ pc = "stripped"
    /\ recleaned' = clean_tags_from_content(cleaned)
    /\ pc' = "restripped"
    /\ UNCHANGED <<batchVars, content, results, zip_bytes, response, translation,
                   cleaned, markdown, txt, dialogue_count>>

TextRender ==
    /\ pc = "restripped"
    /\ markdown' = generate_markdown(content)
    /\ txt' = generate_txt(content)
    /\ dialogue_count' = count_dialogues(content)
    /\ pc' = "rendered"
    /\ UNCHANGED <<batchVars, content, results, zip_bytes, response, translation,
                   cleaned, recleaned>>

NextText == TextStrip \/ TextRestrip \/ TextRender

SpecText == InitText /\ [][NextText]_vars

-----------------------------------------------------------------------------
(* One call of translate_entire_file, then the renderers *)

InitTranslate ==
    /\ uploaded_files = <<>>
    /\ pc = "call"
    /\ idx = 0
    /\ content \in TranslateInputs
    /\ response \in Responses
    /\ api_calls = <<>>
    /\ payload = <<>>
    /\ results = <<>>
    /\ success_count = 0
    /\ total_dialogue_count = 0
    /\ st_error = {}
    /\ st_success = {}
    /\ rejected = FALSE
    /\ metrics = {}
    /\ zip_bytes = <<>>
    /\ translation = NoTranslation
    /\ cleaned = <<>>
    /\ recleaned = <<>>
    /\ markdown = <<>>
    /\ txt = <<>>
    /\ dialogue_count = 0

Translate ==
    /\ pc = "call"
    /\ translation' = translate_entire_file(content, response)
    /\ payload' = request_prompt(content)
    /\ api_calls' = api_calls \o post_request(0)
    /\ pc' = "translated"
    /\ UNCHANGED <<uploaded_files, idx, success_count, total_dialogue_count, st_error,
                   st_success, rejected, metrics, content, results, zip_bytes, response,
                   textVars>>

Render ==
    /\ pc = "translated"
    /\ translation.outcome = "return"
    /\ markdown' = generate_markdown(translation.text)
    /\ txt' = generate_txt(translation.text)
    /\ pc' = "rendered"
    /\ UNCHANGED <<batchVars, content, results, zip_bytes, response, translation,
                   cleaned, recleaned, dialogue_count>>

NextTranslate == Translate \/ Render

SpecTranslate == InitTranslate /\ [][NextTranslate]_vars

-----------------------------------------------------------------------------
(* create_download_zip on its own *)

InitZip ==
    /\ uploaded_files = <<>>
    /\ pc = "mapping"
    /\ idx = 0
    /\ content = <<>>
    /\ results \in ZipMappings
    /\ api_calls = <<>>
    /\ payload = <<>>
    /\ success_count = 0
    /\ total_dialogue_count = 0
    /\ st_error = {}
    /\ st_success = {}
    /\ rejected = FALSE
    /\ metrics = {}
    /\ zip_bytes = <<>>
    /\ response = NoResponse
    /\ translation = NoTranslation
    /\ cleaned = <<>>
    /\ recleaned = <<>>
    /\ markdown = <<>>
    /\ txt = <<>>
    /\ dialogue_count = 0

BuildZip ==
    /\ pc = "mapping"
    /\ zip_bytes' = create_download_zip(results)
    /\ pc' = "zipped"
    /\ UNCHANGED <<batchVars, content, results, response, translation, textVars>>

NextZip == BuildZip

SpecZip == InitZip /\ [][NextZip]_vars

-----------------------------------------------------------------------------
(* Properties *)

LoopDone == pc \in {"summary", "done"}

Attempted == st_error \cup st_success

\* The file the latest provider answer was for (api_calls is not empty).
LastAnswered == api_calls[Len(api_calls)]

ResultFor(name) == results[CHOOSE i \in 1..Len(results) : results[i].filename = name]

\* C1: a file whose processing raises is reported as failed and adds nothing
\* to the result mapping or to the success count, and the loop goes on with
\* the next file whatever the outcomes before it: while it runs it stands at a
\* file all of whose predecessors were reported as failed or as done, and
\* when it is over that holds of every file of the batch.
C1_FailureNeverAbortsBatch ==
    [][/\ (st_error' # st_error =>
              /\ results' = results
              /\ success_count' = success_count
              /\ st_success' = st_success)
       /\ st_error' \cap st_success' = {}
       /\ (pc' \in {"file", "awaiting"} =>
              /\ idx' \in 1..Len(uploaded_files')
              /\ Attempted' = 1..(idx' - 1))
       /\ (LoopDone' => Attempted' = 1..Len(uploaded_files'))]_vars

\* C1 witness: a batch is over in which a file that did not decode was
\* followed by a file that was processed.
C1_Witness ==
    /\ pc = "done"
    /\ \E i \in st_error, j \in st_success :
          i < j /\ uploaded_files[i].raw = RAW_LATIN1

\* A provider outcome whose body does not lead to a string at
\* choices[0].message.content.
Malformed(resp) == resp.transport = "ok" /\ resp.content # "str"

\* C2: translate_entire_file never raises; it returns a string that begins
\* with the API-failure marker on a transport failure and with the
\* parse-failure marker on a malformed response.
C2_TranslateNeverRaises ==
    pc \in {"translated", "rendered"} =>
        /\ translation.outcome = "return"
        /\ (response.transport # "ok" => StartsWith(translation.text, API_FAILED))
        /\ (Malformed(response) /\ response.body \notin {"not_json", "not_json_old"}
               => StartsWith(translation.text, PARSE_FAILED))

\* The latest answered file timed out.
TimedOut ==
    /\ pc \in {"file", "summary", "done"}
    /\ api_calls # <<>>
    /\ response.transport = "Timeout"

\* C3 (as amended): when the provider call for a file times out,
\* translate_entire_file returns a string beginning with the API-failure
\* marker, the file is stored in the result mapping and counted, its
\* plaintext output is that string, and its markdown output contains the
\* marker "[API请求失败:" (the renderer emphasises it as a speaker).
C3_TimeoutBecomesContent ==
    TimedOut =>
        LET name == uploaded_files[LastAnswered].name
        IN  /\ translation.outcome = "return"
            /\ StartsWith(translation.text, API_FAILED)
            /\ LastAnswered \in st_success
            /\ success_count >= 1
            /\ HasKey(results, name)
            /\ Contains(ResultFor(name).txt, translation.text)
            /\ Contains(ResultFor(name).markdown, SubSeq(API_FAILED, 1, Len(API_FAILED) - 1))

\* C3 as stated: both outputs contain the returned failure string itself.
C3_Original ==
    TimedOut =>
        LET name == uploaded_files[LastAnswered].name
        IN  /\ translation.outcome = "return"
            /\ StartsWith(translation.text, API_FAILED)
            /\ LastAnswered \in st_success
            /\ HasKey(results, name)
            /\ Contains(ResultFor(name).txt, translation.text)
            /\ Contains(ResultFor(name).markdown, translation.text)

\* C3 witness: a timed-out file is in the result mapping.
C3_Witness ==
    /\ TimedOut
    /\ HasKey(results, uploaded_files[LastAnswered].name)
    /\ ResultFor(uploaded_files[LastAnswered].name).txt = translation.text

\* C4: at most one provider request is issued per uploaded file whatever its
\* outcome, so there are never more requests than files, and when the
\* request for a file is issued every earlier file has finished.
C4_OneRequestPerFile ==
    /\ \A k, l \in 1..Len(api_calls) : k # l => api_calls[k] # api_calls[l]
    /\ Len(api_calls) <= Len(uploaded_files)
    /\ \A k \in 1..Len(api_calls) : \A j \in 1..(api_calls[k] - 1) : j \in Attempted
    /\ (pc = "awaiting" => LastAnswered = idx /\ idx \notin Attempted)

\* C4 witness: a full batch is over, one request per file, the last timed out.
C4_Witness ==
    /\ pc = "done"
    /\ Len(uploaded_files) = MAX_FILES
    /\ Len(api_calls) = MAX_FILES
    /\ response.transport = "Timeout"

NothingProcessed ==
    /\ content = <<>>
    /\ api_calls = <<>>
    /\ payload = <<>>
    /\ results = <<>>
    /\ success_count = 0
    /\ st_error = {}
    /\ st_success = {}
    /\ zip_bytes = <<>>

\* C5 (as amended): with more than MAX_FILES files the upload is rejected
\* before any processing: no file is decoded, no request is made, the result
\* mapping stays empty, and no processed-file count is reported at all (the
\* script returns before the summary).
C5_TooManyFilesRejected ==
    /\ Len(uploaded_files) > MAX_FILES =>
          /\ pc \in {"uploaded", "returned"}
          /\ NothingProcessed
          /\ metrics = {}
    /\ rejected <=> (pc = "returned")
    /\ rejected => Len(uploaded_files) > MAX_FILES

\* C5 as stated: the reported processed-file count is 0.
C5_Original ==
    pc = "returned" =>
        /\ NothingProcessed
        /\ [label |-> "success", value |-> 0] \in metrics

\* C5 witness: an upload of MAX_FILES + 1 files was rejected.
C5_Witness ==
    /\ rejected
    /\ pc = "returned"
    /\ Len(uploaded_files) = MAX_FILES + 1

\* The member names the claim gives for a result mapping.
RECURSIVE ExpectedNames(_)
ExpectedNames(res) ==
    IF res = <<>> THEN <<>>
    ELSE <<Stem(Head(res).filename) \o SUFFIX_MD, Stem(Head(res).filename) \o SUFFIX_TXT>>
         \o ExpectedNames(Tail(res))

\* C6: the archive's members are <stem>_translated.md and
\* <stem>_translated.txt per entry in insertion order, and extracting the
\* member named for an entry yields the UTF-8 bytes of that entry's output;
\* an empty mapping yields an empty archive.
C6_ArchiveRoundTrip ==
    pc = "zipped" =>
        /\ NameList(zip_bytes) = ExpectedNames(results)
        /\ \A i \in 1..Len(results) :
              /\ ZipRead(zip_bytes, Stem(results[i].filename) \o SUFFIX_MD)
                    = Utf8Encode(results[i].markdown)
              /\ ZipRead(zip_bytes, Stem(results[i].filename) \o SUFFIX_TXT)
                    = Utf8Encode(results[i].txt)
        /\ (results = <<>> => zip_bytes = <<>>)

\* A stripped line that reads `speaker: content`.
IsSpeakerLine(line) == IndexOf(line, COLON) > 1

\* "**Sally:** Hello!"
SALLY_BOLD == <<42, 42, 83, 97, 108, 108, 121, 58, 42, 42, 32, 72, 101, 108, 108, 111, 33>>

\* C7 (as amended): generate_markdown(x) has as many lines as x; line i of
\* the output is empty exactly when line i of x is blank (empty or
\* whitespace only); a non-blank line that is no speaker line comes out with
\* its surrounding whitespace trimmed; a speaker line comes out as
\* `**speaker:** content`, both parts trimmed.
C7_MarkdownLines ==
    pc = "rendered" =>
        LET in == Split(content)
            out == Split(markdown)
        IN  /\ Len(out) = Len(in)
            /\ \A i \in 1..Len(in) :
                  LET line == Strip(in[i])
                      k == IndexOf(line, COLON)
                  IN  /\ (out[i] = <<>>) <=> (line = <<>>)
                      /\ (line # <<>> /\ ~IsSpeakerLine(line)) => out[i] = line
                      /\ IsSpeakerLine(line) =>
                            out[i] = <<STAR, STAR>> \o Strip(SubSeq(line, 1, k - 1))
                                     \o <<COLON, STAR, STAR, SPACE>>
                                     \o Strip(From(line, k + 1))
            /\ (content = SALLY_HELLO => markdown = SALLY_BOLD)

\* C7 as stated: a blank line passes through unchanged and a non-blank line
\* that is no speaker line passes through verbatim.
C7_Original ==
    pc = "rendered" =>
        LET in == Split(content)
            out == Split(markdown)
        IN  /\ Len(out) = Len(in)
            /\ \A i \in 1..Len(in) :
                  /\ (Strip(out[i]) = <<>>) <=> (Strip(in[i]) = <<>>)
                  /\ Strip(in[i]) = <<>> => out[i] = in[i]
                  /\ (Strip(in[i]) # <<>> /\ ~IsSpeakerLine(Strip(in[i]))) => out[i] = in[i]
            /\ (content = SALLY_HELLO => markdown = SALLY_BOLD)

\* C7 witness: a rendered text with a speaker line and a whitespace-only line.
C7_Witness ==
    /\ pc = "rendered"
    /\ \E i, j \in 1..Len(Split(content)) :
          /\ IsSpeakerLine(Strip(Split(content)[i]))
          /\ Split(content)[j] # <<>>
          /\ Strip(Split(content)[j]) = <<>>

\* C8 (as amended): the stripped text has no '[' followed on the same line
\* by a ']'; stripping it again changes nothing; a text without brackets is
\* left as it is.
C8_NoTagLeft ==
    /\ pc \in {"stripped", "restripped", "rendered"} =>
          /\ ~ \E i, j \in 1..Len(cleaned) :
                  /\ i < j
                  /\ cleaned[i] = LBRACKET
                  /\ cleaned[j] = RBRACKET
                  /\ \A k \in (i + 1)..(j - 1) : cleaned[k] # NL
          /\ ({LBRACKET, RBRACKET} \cap Range(content) = {} => cleaned = content)
    /\ pc \in {"restripped", "rendered"} => recleaned = cleaned

\* C8 as stated: no '[' is followed later by a ']', whatever lies between.
C8_Original ==
    /\ pc \in {"stripped", "restripped", "rendered"} =>
          /\ ~ \E i, j \in 1..Len(cleaned) :
                  i < j /\ cleaned[i] = LBRACKET /\ cleaned[j] = RBRACKET
          /\ ({LBRACKET, RBRACKET} \cap Range(content) = {} => cleaned = content)
    /\ pc \in {"restripped", "rendered"} => recleaned = cleaned

\* C8 witness: two tags were removed from a text and something is left.
C8_Witness ==
    /\ pc = "restripped"
    /\ Cardinality({i \in 1..Len(content) : content[i] = LBRACKET}) >= 2
    /\ Len(cleaned) + 4 <= Len(content)
    /\ cleaned # <<>>

\* "Sally:  Hello!\nPete:  Hi!" and "Sally: Hello!\nPete: Hi!"
SCENARIO_TWO_SPACES ==
    <<83, 97, 108, 108, 121, 58, 32, 32, 72, 101, 108, 108, 111, 33, 10, 80, 101, 116,
      101, 58, 32, 32, 72, 105, 33>>

SCENARIO_ONE_SPACE ==
    <<83, 97, 108, 108, 121, 58, 32, 72, 101, 108, 108, 111, 33, 10, 80, 101, 116, 101,
      58, 32, 72, 105, 33>>

\* What the posted prompt holds between the fixed head and tail of the template.
Embedded == SubSeq(payload, Len(PROMPT_HEAD) + 1, Len(payload) - Len(PROMPT_TAIL))

RequestSentForScenario == payload # <<>> /\ content = SCENARIO

\* C9 (as amended): stripping the scenario input leaves both spaces that
\* surrounded each tag, "Sally:  Hello!\nPete:  Hi!", and that text is what
\* the prompt posted to the provider embeds.
C9_ScenarioStripped ==
    RequestSentForScenario =>
        /\ StartsWith(payload, PROMPT_HEAD)
        /\ From(payload, Len(payload) - Len(PROMPT_TAIL) + 1) = PROMPT_TAIL
        /\ Embedded = SCENARIO_TWO_SPACES

\* C9 as stated: one space between the colon and the utterance.
C9_Original ==
    RequestSentForScenario =>
        /\ StartsWith(payload, PROMPT_HEAD)
        /\ From(payload, Len(payload) - Len(PROMPT_TAIL) + 1) = PROMPT_TAIL
        /\ Embedded = SCENARIO_ONE_SPACE

\* C9 witness: the request for a file holding the scenario text is in flight.
C9_Witness ==
    /\ pc = "awaiting"
    /\ RequestSentForScenario
    /\ uploaded_files[idx].raw = RAW_SCENARIO

\* C10: the result mapping is append-only: each processed file adds exactly
\* one new entry at the end, existing entries are never modified, and after
\* the loop the number of entries is the count of processed files.
C10_AppendOnly ==
    [][/\ (st_success' # st_success =>
              /\ Len(results') = Len(results) + 1
              /\ SubSeq(results', 1, Len(results)) = results)
       /\ (st_success' = st_success /\ pc # "uploaded" => results' = results)
       /\ (LoopDone' => Len(results') = success_count')]_vars

====
